---- MODULE Spec2Model ----
(***************************************************************************)
(* Authentication and session-rotation subsystem of BETalentBoard:         *)
(* authController.js (register, login, logout, refreshToken,               *)
(* forgotPassword, resetPassword), utils/jwt.js (token codec),             *)
(* utils/password.js, middlewares/auth.js (authenticate, optionalAuth,     *)
(* authorize), userController.js (updateUser, deleteUser,                  *)
(* changeMyPassword); and the notification path of the job board:          *)
(* jobController.js (createJob, applyJob, updateApplicationStatus) with    *)
(* utils/notificationPublisher.js (publishEvent).                          *)
(*                                                                         *)
(* The user table is the only shared state.  Every handler is async: the   *)
(* handlers whose read-then-write window the rotation and reset contracts  *)
(* depend on (refreshToken, resetPassword) are modelled in two steps, the  *)
(* store read and the continuation that writes, so that concurrent         *)
(* requests interleave between them.                                       *)
(***************************************************************************)
EXTENDS Integers, Sequences, FiniteSets, TLC

(* ---------------------------- bounds ----------------------------------- *)
MaxReqs == 2
MaxTicks == 1
MaxUsers == 2
MaxJobs == 1
MaxAwaiting == 1

(* ------------------------ program constants ---------------------------- *)
AccessTTL == 900
RefreshTTL == 604800
ResetTTL == 3600
MinPasswordLen == 6

JWT_SECRET == "JWT_SECRET"
JWT_REFRESH_SECRET == "JWT_REFRESH_SECRET"

Emails == {"a@b.com"}
AdminEmail == "admin@b.com"
MalformedEmail == "not-an-email"
Passwords == {"secret1", "secret2", "short"}
Roles == {"USER", "ADMIN"}

ReqIds == 1..MaxReqs

(* ------------------------- token codec --------------------------------- *)
(* A JWT is header.payload.signature; the payload is {userId, iat, exp}    *)
(* with iat the clock in whole seconds, and the signature is an HMAC of    *)
(* the payload under the secret.  Two tokens are the same string exactly   *)
(* when secret, userId, iat and exp agree.  There is no purpose field.     *)
NoToken == [secret |-> "none", userId |-> 0, iat |-> 0, exp |-> 0]

(* a string that is not a JWT at all *)
MalformedToken == [secret |-> "malformed", userId |-> 0, iat |-> 0, exp |-> 0]

sign(userId, secret, expiresIn, t) ==
    [secret |-> secret, userId |-> userId, iat |-> t, exp |-> t + expiresIn]

generateAccessToken(userId, t) == sign(userId, JWT_SECRET, AccessTTL, t)

generateRefreshToken(userId, t) == sign(userId, JWT_REFRESH_SECRET, RefreshTTL, t)

generateResetToken(userId, t) == sign(userId, JWT_SECRET, ResetTTL, t)

(* verifyToken, were the signature not checked against the secret *)
verifyTokenAnySecret(token, secret, t) ==
    IF t >= token.exp THEN "TokenExpiredError" ELSE "ok"

(* jwt.verify: "JsonWebTokenError" on a bad signature, "TokenExpiredError" *)
(* once the clock has reached exp, else the decoded payload.               *)
verifyToken(token, secret, t) ==
    IF token.secret # secret THEN "JsonWebTokenError"
    ELSE IF t >= token.exp THEN "TokenExpiredError"
    ELSE "ok"

(* --------------------------- passwords --------------------------------- *)
hashPassword(password) == <<"bcrypt", password>>

comparePassword(password, hashedPassword) == hashedPassword = hashPassword(password)

validatePassword(password) == Len(password) >= MinPasswordLen

(* the format check of helpers.js: every address but MalformedEmail is     *)
(* well formed                                                              *)
validateEmail(email) == email \in Emails \cup {AdminEmail}

(* ----------------------------- state ----------------------------------- *)
VARIABLES
    users,      \* the User table: id -> row
    now,        \* the wall clock, in seconds
    reqs,       \* refreshToken / resetPassword requests between read and write
    resp,       \* the response of the step just taken, if it answered a request
    NODE_ENV,   \* process.env.NODE_ENV of the deployment
    lastId,     \* the ids handed out so far (ids are never handed out twice)
    jobs,           \* the Job table, in order of creation
    applications,   \* the JobApplication table, in order of creation
    redisClient,    \* the state of the Redis connection
    awaiting        \* job handlers suspended at their await of the publish

jobVars == <<jobs, applications, redisClient, awaiting>>

vars == <<users, now, reqs, resp, NODE_ENV, lastId, jobVars>>

NodeEnvs == {"development", "production"}

NoExpiry == 0 - 1

NewUser(email, password) ==
    [email |-> email, password |-> hashPassword(password), role |-> "USER",
     isActive |-> TRUE, refreshToken |-> NoToken, resetToken |-> NoToken,
     resetTokenExpiry |-> NoExpiry]

(* A request in flight (reqs lists them in the order they read the store):  *)
(* the request (kind, token, newPassword; email and password for a          *)
(* register) and what has happened since it read the store:                 *)
(*   raced - a request of the same kind and token has succeeded             *)
(*   stale - (refresh) a resetPassword of the token's user has completed    *)
(*           and the user has not logged in since                           *)
NewReq(kind, token, newPassword) ==
    [kind |-> kind, token |-> token, newPassword |-> newPassword, email |-> "",
     raced |-> FALSE, stale |-> FALSE]

(* the sequence without its r-th element *)
Remove(seq, r) == [i \in 1..(Len(seq) - 1) |-> IF i < r THEN seq[i] ELSE seq[i + 1]]

(* The data member of the response body {success, message, data}: null, or *)
(* an object with the members the handler put in it (a member that is      *)
(* absent or undefined is NoToken here: JSON drops it).                    *)
NoUser == [id |-> 0]

NoData ==
    [null |-> TRUE, user |-> NoUser, accessToken |-> NoToken,
     refreshToken |-> NoToken, resetToken |-> NoToken]

NoResp ==
    [op |-> "none", status |-> 0, message |-> "", data |-> NoData, userId |-> 0,
     token |-> NoToken, prev |-> NoToken, email |-> "", password |-> "",
     roles |-> {}, next |-> 0, storeUp |-> TRUE, settled |-> "",
     raced |-> FALSE, stale |-> FALSE]

Response(op, status, message) ==
    [NoResp EXCEPT !.op = op, !.status = status, !.message = message]

(* prisma.user.findUnique({where: {email}}) *)
findByEmail(tbl, email) == {u \in DOMAIN tbl : tbl[u].email = email}

(* register, login and refreshToken issue the access token together with   *)
(* the refresh token, at the same clock reading.                            *)
PairedAccess(refreshToken) == generateAccessToken(refreshToken.userId, refreshToken.iat)

(* What a client can present: tokens the server has handed out (the ones    *)
(* the table, a request in flight or the last exchange still records, and   *)
(* the access tokens issued with them).                                     *)
Held ==
    ({users[u].refreshToken : u \in DOMAIN users}
       \cup {users[u].resetToken : u \in DOMAIN users}
       \cup {reqs[r].token : r \in DOMAIN reqs}
       \cup {resp.token, resp.prev})
    \ {NoToken, MalformedToken}

Presentable ==
    Held \cup {PairedAccess(t) : t \in {h \in Held : h.secret = JWT_REFRESH_SECRET}}

(* the :id a request can name: the ids in the table, and one no row has *)
UserIds == DOMAIN users \cup {lastId + 1}

(* no job, no application; the Redis client connected and answering *)
InitBoard ==
    /\ jobs = <<>>
    /\ applications = <<>>
    /\ redisClient = "ready"
    /\ awaiting = <<>>

Init ==
    /\ users = <<>>
    /\ now = 0
    /\ reqs = <<>>
    /\ resp = NoResp
    /\ NODE_ENV \in NodeEnvs
    /\ lastId = 0
    /\ InitBoard

(* ----------------------------- clock ----------------------------------- *)
TickSteps == {AccessTTL, RefreshTTL}

(* the least number of steps of TickSteps that add up to t *)
TickCount(t) == (t \div RefreshTTL) + ((t % RefreshTTL) \div AccessTTL)

Tick ==
    /\ \E d \in TickSteps :
          /\ TickCount(now + d) <= MaxTicks
          /\ now' = now + d
    /\ resp' = NoResp
    /\ UNCHANGED <<users, reqs, NODE_ENV, lastId, jobVars>>

(* ---------------------------- register --------------------------------- *)
(* the answer register's checks lead to on a table *)
RegisterCheck(tbl, email, password) ==
    IF ~validateEmail(email)
    THEN [status |-> 400, message |-> "Invalid email format"]
    ELSE IF ~validatePassword(password)
    THEN [status |-> 400, message |-> "Password must be at least 6 characters"]
    ELSE IF findByEmail(tbl, email) # {}
    THEN [status |-> 400, message |-> "Email already registered"]
    ELSE [status |-> 201, message |-> "Registration successful"]

(* the table after prisma.user.create and the update that stores the        *)
(* refresh token                                                            *)
created(tbl, id, email, password, t) ==
    [u \in DOMAIN tbl \cup {id} |->
       IF u = id
       THEN [NewUser(email, password) EXCEPT
                !.refreshToken = generateRefreshToken(id, t)]
       ELSE tbl[u]]

(* register's select on the created row: id, email, username, name, role,  *)
(* createdAt                                                                *)
registerUser(id, row) == [id |-> id, email |-> row.email, role |-> row.role]

(* the data of register's and login's answer: {user, accessToken,           *)
(* refreshToken}, both tokens generated at t                                *)
sessionData(user, id, t) ==
    [NoData EXCEPT !.null = FALSE, !.user = user,
                   !.accessToken = generateAccessToken(id, t),
                   !.refreshToken = generateRefreshToken(id, t)]

(* register, start to end with no other request in between; the body may    *)
(* carry role and isActive: register does not read them                     *)
Register ==
    \E email \in Emails \cup {MalformedEmail}, password \in Passwords,
       body \in {<<"", "keep">>, <<"ADMIN", "false">>} :
       /\ UNCHANGED <<now, reqs, NODE_ENV, jobVars>>
       /\ LET chk == RegisterCheck(users, email, password)
          IN IF chk.status # 201
             THEN /\ resp' = [Response("register", chk.status, chk.message)
                                EXCEPT !.email = email, !.password = password]
                  /\ UNCHANGED <<users, lastId>>
             ELSE /\ lastId < MaxUsers
                  /\ lastId' = lastId + 1
                  /\ users' = created(users, lastId + 1, email, password, now)
                  /\ resp' = [Response("register", 201, "Registration successful")
                                EXCEPT !.userId = lastId + 1,
                                       !.email = email, !.password = password,
                                       !.data = sessionData(
                                                   registerUser(lastId + 1, users'[lastId + 1]),
                                                   lastId + 1, now)]

(* register up to prisma.user.create: validation and the findUnique by email *)
RegisterLookup ==
    \E email \in Emails \cup {MalformedEmail}, password \in Passwords :
       /\ LET chk == RegisterCheck(users, email, password)
          IN IF chk.status # 201
             THEN /\ resp' = [Response("register", chk.status, chk.message)
                                EXCEPT !.email = email, !.password = password]
                  /\ UNCHANGED reqs
             ELSE /\ Len(reqs) < MaxReqs
                  /\ reqs' = Append(reqs, [NewReq("register", NoToken, password)
                                             EXCEPT !.email = email])
                  /\ resp' = NoResp
       /\ UNCHANGED <<users, now, NODE_ENV, lastId, jobVars>>

(* register from prisma.user.create on: email is @unique, so the create     *)
(* throws when a row with the email has appeared since the findUnique, and  *)
(* the catch answers 500                                                    *)
RegisterCreate(r) ==
    /\ r \in DOMAIN reqs
    /\ reqs[r].kind = "register"
    /\ IF findByEmail(users, reqs[r].email) # {}
       THEN /\ resp' = [Response("register", 500, "Registration failed")
                          EXCEPT !.email = reqs[r].email,
                                 !.password = reqs[r].newPassword, !.raced = TRUE]
            /\ UNCHANGED <<users, lastId>>
       ELSE /\ lastId < MaxUsers
            /\ lastId' = lastId + 1
            /\ users' = created(users, lastId + 1, reqs[r].email, reqs[r].newPassword, now)
            /\ resp' = [Response("register", 201, "Registration successful")
                          EXCEPT !.userId = lastId + 1, !.email = reqs[r].email,
                                 !.password = reqs[r].newPassword,
                                 !.data = sessionData(
                                             registerUser(lastId + 1, users'[lastId + 1]),
                                             lastId + 1, now)]
    /\ reqs' = Remove(reqs, r)
    /\ UNCHANGED <<now, NODE_ENV, jobVars>>

(* ------------------------------ login ---------------------------------- *)
(* login's checks, were isActive not looked at *)
LoginCheckIgnoresActive(tbl, email, password) ==
    LET found == findByEmail(tbl, email)
    IN IF found = {} THEN [status |-> 401, message |-> "Invalid email or password"]
       ELSE LET user == tbl[CHOOSE u \in found : TRUE]
            IN IF ~comparePassword(password, user.password)
               THEN [status |-> 401, message |-> "Invalid email or password"]
               ELSE [status |-> 200, message |-> "Login successful"]

(* the answer login's checks lead to on a table *)
LoginCheck(tbl, email, password) ==
    LET found == findByEmail(tbl, email)
    IN IF found = {} THEN [status |-> 401, message |-> "Invalid email or password"]
       ELSE LET user == tbl[CHOOSE u \in found : TRUE]
            IN IF ~user.isActive
               THEN [status |-> 401, message |-> "Account is deactivated"]
               ELSE IF ~comparePassword(password, user.password)
               THEN [status |-> 401, message |-> "Invalid email or password"]
               ELSE [status |-> 200, message |-> "Login successful"]

(* login's user object, were only the password taken out of the row *)
userResponseWithToken(id, row) ==
    ("id" :> id) @@ [f \in DOMAIN row \ {"password"} |-> row[f]]

(* login's user object: const {password, refreshToken, ...userResponse} =   *)
(* user, the row as findUnique returned it                                  *)
userResponse(id, row) ==
    ("id" :> id) @@ [f \in DOMAIN row \ {"password", "refreshToken"} |-> row[f]]

Login ==
    \E email \in Emails \cup {AdminEmail}, password \in Passwords :
       /\ UNCHANGED <<now, NODE_ENV, lastId, jobVars>>
       /\ LET chk == LoginCheck(users, email, password)
          IN IF chk.status # 200
             THEN /\ resp' = [Response("login", chk.status, chk.message)
                                EXCEPT !.email = email, !.password = password]
                  /\ UNCHANGED <<users, reqs>>
             ELSE LET id == CHOOSE u \in findByEmail(users, email) : TRUE
                      refreshToken == generateRefreshToken(id, now)
                  IN /\ users' = [users EXCEPT ![id].refreshToken = refreshToken]
                     /\ reqs' = [r \in DOMAIN reqs |->
                                   IF reqs[r].kind = "refresh" /\ reqs[r].token.userId = id
                                   THEN [reqs[r] EXCEPT !.stale = FALSE]
                                   ELSE reqs[r]]
                     /\ resp' = [Response("login", 200, "Login successful")
                                   EXCEPT !.userId = id,
                                          !.email = email, !.password = password,
                                          !.prev = users[id].refreshToken,
                                          !.data = sessionData(userResponse(id, users[id]),
                                                               id, now)]

(* --------------------- authenticate / optionalAuth --------------------- *)
(* authenticate, were isActive not looked at *)
authenticateIgnoresActive(tbl, token, t) ==
    IF token = NoToken
    THEN [status |-> 401, message |-> "Access token required", userId |-> 0]
    ELSE LET v == verifyToken(token, JWT_SECRET, t)
         IN IF v = "TokenExpiredError"
            THEN [status |-> 401, message |-> "Token expired", userId |-> 0]
            ELSE IF v = "JsonWebTokenError"
            THEN [status |-> 401, message |-> "Invalid token", userId |-> 0]
            ELSE IF token.userId \notin DOMAIN tbl
            THEN [status |-> 401, message |-> "User not found or inactive", userId |-> 0]
            ELSE [status |-> 200, message |-> "", userId |-> token.userId]

(* authenticate: the status it answers and the identity it attaches        *)
(* (0: none; next() is called exactly when an identity is attached).       *)
authenticate(tbl, token, t) ==
    IF token = NoToken
    THEN [status |-> 401, message |-> "Access token required", userId |-> 0]
    ELSE LET v == verifyToken(token, JWT_SECRET, t)
         IN IF v = "TokenExpiredError"
            THEN [status |-> 401, message |-> "Token expired", userId |-> 0]
            ELSE IF v = "JsonWebTokenError"
            THEN [status |-> 401, message |-> "Invalid token", userId |-> 0]
            ELSE IF token.userId \notin DOMAIN tbl \/ ~tbl[token.userId].isActive
            THEN [status |-> 401, message |-> "User not found or inactive", userId |-> 0]
            ELSE [status |-> 200, message |-> "", userId |-> token.userId]

(* optionalAuth, were the token decoded without being verified *)
optionalAuthUnverified(tbl, token, t) ==
    IF token = NoToken THEN 0
    ELSE IF token.userId \in DOMAIN tbl /\ tbl[token.userId].isActive
    THEN token.userId
    ELSE 0

(* optionalAuth: the identity it attaches, 0 for none; it always calls next() *)
optionalAuth(tbl, token, t) ==
    IF token = NoToken THEN 0
    ELSE IF verifyToken(token, JWT_SECRET, t) # "ok" THEN 0
    ELSE IF token.userId \in DOMAIN tbl /\ tbl[token.userId].isActive
    THEN token.userId
    ELSE 0

(* optionalAuth, were a failure in it answered as authenticate answers it *)
optionalAuthFailing(tbl, token, t, storeUp) ==
    LET threw == token # NoToken
                    /\ (verifyToken(token, JWT_SECRET, t) # "ok" \/ ~storeUp)
        user == IF ~threw /\ token # NoToken /\ token.userId \in DOMAIN tbl
                   /\ tbl[token.userId].isActive
                THEN token.userId ELSE 0
    IN [userId |-> user,
        status |-> IF threw THEN 401 ELSE 0,
        next |-> IF threw THEN 0 ELSE 1]

(* optionalAuth as a run of the middleware: the identity it attaches (0:    *)
(* none), the status of the response it sends itself (0: it sends none) and *)
(* the number of times it calls next().  verifyToken throws on a token that *)
(* does not verify and findUnique throws when the store is down (storeUp    *)
(* false); next() is called at the end of the try block when nothing threw  *)
(* and in the catch block when something did.                               *)
optionalAuthOutcome(tbl, token, t, storeUp) ==
    LET threw == token # NoToken
                    /\ (verifyToken(token, JWT_SECRET, t) # "ok" \/ ~storeUp)
        user == IF ~threw /\ token # NoToken /\ token.userId \in DOMAIN tbl
                   /\ tbl[token.userId].isActive
                THEN token.userId ELSE 0
    IN [userId |-> user,
        status |-> 0,
        next |-> (IF threw THEN 0 ELSE 1) + (IF threw THEN 1 ELSE 0)]

(* a request through optionalAuth, with the store up or down *)
OptionalAuth ==
    \E token \in Presentable \cup {NoToken, MalformedToken}, storeUp \in BOOLEAN :
       /\ LET o == optionalAuthOutcome(users, token, now, storeUp)
          IN resp' = [Response("optionalAuth", o.status, "")
                        EXCEPT !.userId = o.userId, !.token = token,
                               !.next = o.next, !.storeUp = storeUp]
       /\ UNCHANGED <<users, now, reqs, NODE_ENV, lastId, jobVars>>

(* authorize(roles): the gate on req.user (role "" : no identity attached); *)
(* status 200 stands for next()                                             *)
authorize(roles, role) ==
    IF role = ""
    THEN [status |-> 401, message |-> "Authentication required"]
    ELSE IF roles # {} /\ role \notin roles
    THEN [status |-> 403, message |-> "Insufficient permissions"]
    ELSE [status |-> 200, message |-> ""]

(* A route guarded by authorize(roles), for every roles list a route can be *)
(* built with: req.user is what the middleware before it attached, if any.  *)
Authorize ==
    \E token \in Presentable \cup {NoToken}, roles \in SUBSET Roles :
       /\ LET userId == optionalAuth(users, token, now)
              gate == authorize(roles, IF userId = 0 THEN "" ELSE users[userId].role)
          IN resp' = [Response("authorize", gate.status, gate.message)
                        EXCEPT !.userId = userId, !.token = token, !.roles = roles]
       /\ UNCHANGED <<users, now, reqs, NODE_ENV, lastId, jobVars>>

(* GET /api/users/me, were an access token accepted only while its user    *)
(* has a stored session                                                     *)
GetMyProfileSessionBound ==
    \E token \in Presentable \cup {NoToken, MalformedToken} :
       /\ LET a == authenticate(users, token, now)
          IN IF a.status = 200 /\ users[a.userId].refreshToken = NoToken
             THEN resp' = [Response("authenticate", 401, "Invalid token")
                             EXCEPT !.token = token]
             ELSE resp' = [Response("authenticate", a.status, a.message)
                             EXCEPT !.userId = a.userId, !.token = token]
       /\ UNCHANGED <<users, now, reqs, NODE_ENV, lastId, jobVars>>

(* GET /api/users/me: authenticate, then getMyProfile *)
GetMyProfile ==
    \E token \in Presentable \cup {NoToken, MalformedToken} :
       /\ LET a == authenticate(users, token, now)
          IN resp' = [Response("authenticate", a.status, a.message)
                        EXCEPT !.userId = a.userId, !.token = token]
       /\ UNCHANGED <<users, now, reqs, NODE_ENV, lastId, jobVars>>

(* ------------------------------ logout --------------------------------- *)
(* logout, were the stored refresh token left in place *)
logoutKeepsToken(tbl, token, t) == tbl

(* the table after POST /auth/logout: optionalAuth, then logout *)
logout(tbl, token, t) ==
    LET userId == optionalAuth(tbl, token, t)
    IN IF userId # 0
       THEN [tbl EXCEPT ![userId].refreshToken = NoToken]
       ELSE tbl

Logout ==
    \E token \in Presentable \cup {NoToken, MalformedToken} :
       /\ users' = logout(users, token, now)
       /\ LET userId == optionalAuth(users, token, now)
          IN resp' = [Response("logout", 200, "Logout successful")
                        EXCEPT !.userId = userId, !.token = token,
                               !.prev = IF userId # 0
                                        THEN users[userId].refreshToken
                                        ELSE NoToken]
       /\ UNCHANGED <<now, reqs, NODE_ENV, lastId, jobVars>>

(* --------------------------- refreshToken ------------------------------ *)
(* refreshToken's checks, were the user looked up by id alone *)
RefreshCheckByIdOnly(tbl, token, t) ==
    IF token = NoToken
    THEN [status |-> 401, message |-> "Refresh token required"]
    ELSE LET v == verifyToken(token, JWT_REFRESH_SECRET, t)
         IN IF v = "TokenExpiredError"
            THEN [status |-> 401, message |-> "Refresh token expired"]
            ELSE IF v = "JsonWebTokenError"
            THEN [status |-> 401, message |-> "Invalid refresh token"]
            ELSE IF \/ token.userId \notin DOMAIN tbl
                    \/ ~tbl[token.userId].isActive
            THEN [status |-> 401, message |-> "Invalid refresh token"]
            ELSE [status |-> 200, message |-> "Token refreshed successfully"]

(* the answer refreshToken's checks lead to: verifyToken under the refresh  *)
(* secret, then findUnique({id: decoded.userId, refreshToken}), isActive    *)
RefreshCheck(tbl, token, t) ==
    IF token = NoToken
    THEN [status |-> 401, message |-> "Refresh token required"]
    ELSE LET v == verifyToken(token, JWT_REFRESH_SECRET, t)
         IN IF v = "TokenExpiredError"
            THEN [status |-> 401, message |-> "Refresh token expired"]
            ELSE IF v = "JsonWebTokenError"
            THEN [status |-> 401, message |-> "Invalid refresh token"]
            ELSE IF \/ token.userId \notin DOMAIN tbl
                    \/ tbl[token.userId].refreshToken # token
                    \/ ~tbl[token.userId].isActive
            THEN [status |-> 401, message |-> "Invalid refresh token"]
            ELSE [status |-> 200, message |-> "Token refreshed successfully"]

(* refreshToken up to the store read: verify, look the user up *)
RefreshLookup ==
    \E token \in Presentable \cup {NoToken} :
       /\ LET chk == RefreshCheck(users, token, now)
          IN IF chk.status # 200
             THEN /\ resp' = [Response("refreshToken", chk.status, chk.message)
                                EXCEPT !.token = token]
                  /\ UNCHANGED reqs
             ELSE /\ Len(reqs) < MaxReqs
                  /\ reqs' = Append(reqs, NewReq("refresh", token, ""))
                  /\ resp' = NoResp
       /\ UNCHANGED <<users, now, NODE_ENV, lastId, jobVars>>

(* refreshToken after the read: issue the new pair, store the refresh token *)
RefreshUpdate(r) ==
    /\ r \in DOMAIN reqs
    /\ reqs[r].kind = "refresh"
    /\ LET id == reqs[r].token.userId
           newRefreshToken == generateRefreshToken(id, now)
       IN IF id \notin DOMAIN users
          THEN \* prisma.user.update throws (record not found): the catch-all
               /\ resp' = [Response("refreshToken", 500, "Token refresh failed")
                             EXCEPT !.token = reqs[r].token]
               /\ reqs' = Remove(reqs, r)
               /\ UNCHANGED users
          ELSE /\ users' = [users EXCEPT ![id].refreshToken = newRefreshToken]
               /\ reqs' = Remove([q \in DOMAIN reqs |->
                                    IF reqs[q].kind = "refresh" /\ reqs[q].token = reqs[r].token
                                    THEN [reqs[q] EXCEPT !.raced = TRUE]
                                    ELSE reqs[q]], r)
               /\ resp' = [Response("refreshToken", 200, "Token refreshed successfully")
                             EXCEPT !.userId = id, !.token = reqs[r].token,
                                    !.prev = users[id].refreshToken,
                                    !.raced = reqs[r].raced, !.stale = reqs[r].stale]
    /\ UNCHANGED <<now, NODE_ENV, lastId, jobVars>>

(* refreshToken, start to end with no other request in between *)
RefreshToken ==
    \E token \in Presentable \cup {NoToken} :
       /\ LET chk == RefreshCheck(users, token, now)
              id == token.userId
          IN IF chk.status # 200
             THEN /\ resp' = [Response("refreshToken", chk.status, chk.message)
                                EXCEPT !.token = token]
                  /\ UNCHANGED users
             ELSE /\ users' = [users EXCEPT
                                  ![id].refreshToken = generateRefreshToken(id, now)]
                  /\ resp' = [Response("refreshToken", 200, "Token refreshed successfully")
                                EXCEPT !.userId = id, !.token = token,
                                       !.prev = users[id].refreshToken]
       /\ UNCHANGED <<now, reqs, NODE_ENV, lastId, jobVars>>

(* -------------------------- forgotPassword ----------------------------- *)
(* successResponse(res, data, message, statusCode = 200) of helpers.js:     *)
(* the body carries message and data as given.                              *)
successResponse(data, message, statusCode) ==
    [status |-> statusCode, message |-> message, data |-> data]

(* what forgotPassword answers for a well-formed email on a table *)
forgotPasswordResponse(tbl, email, env, t) ==
    LET found == findByEmail(tbl, email)
    IN IF found = {}
       THEN successResponse(NoData, "If email exists, reset link has been sent", 200)
       ELSE LET id == CHOOSE u \in found : TRUE
                resetToken == generateResetToken(id, t)
            IN successResponse(
                  [NoData EXCEPT
                      !.null = FALSE,
                      !.resetToken = IF env = "development" THEN resetToken ELSE NoToken],
                  "If email exists, reset link has been sent", 200)

(* forgotPassword, were the reset token stored without its expiry *)
ForgotPasswordNoExpiry ==
    \E email \in Emails \cup {AdminEmail, MalformedEmail} :
       /\ LET found == findByEmail(users, email)
              answer == forgotPasswordResponse(users, email, NODE_ENV, now)
          IN IF ~validateEmail(email)
             THEN /\ resp' = Response("forgotPassword", 400, "Invalid email format")
                  /\ UNCHANGED users
             ELSE IF found = {}
             THEN /\ resp' = [Response("forgotPassword", answer.status, answer.message)
                                EXCEPT !.data = answer.data]
                  /\ UNCHANGED users
             ELSE LET id == CHOOSE u \in found : TRUE
                      resetToken == generateResetToken(id, now)
                  IN /\ users' = [users EXCEPT ![id].resetToken = resetToken]
                     /\ resp' = [Response("forgotPassword", answer.status, answer.message)
                                   EXCEPT !.data = answer.data,
                                          !.userId = id, !.token = resetToken,
                                          !.prev = users[id].resetToken]
       /\ UNCHANGED <<now, reqs, NODE_ENV, lastId, jobVars>>

(* POST /auth/forgot-password *)
ForgotPassword ==
    \E email \in Emails \cup {AdminEmail, MalformedEmail} :
       /\ LET found == findByEmail(users, email)
              answer == forgotPasswordResponse(users, email, NODE_ENV, now)
          IN IF ~validateEmail(email)
             THEN /\ resp' = Response("forgotPassword", 400, "Invalid email format")
                  /\ UNCHANGED users
             ELSE IF found = {}
             THEN /\ resp' = [Response("forgotPassword", answer.status, answer.message)
                                EXCEPT !.data = answer.data]
                  /\ UNCHANGED users
             ELSE LET id == CHOOSE u \in found : TRUE
                      resetToken == generateResetToken(id, now)
                      resetTokenExpiry == now + ResetTTL
                  IN /\ users' = [users EXCEPT ![id].resetToken = resetToken,
                                               ![id].resetTokenExpiry = resetTokenExpiry]
                     /\ resp' = [Response("forgotPassword", answer.status, answer.message)
                                   EXCEPT !.data = answer.data,
                                          !.userId = id, !.token = resetToken,
                                          !.prev = users[id].resetToken]
       /\ UNCHANGED <<now, reqs, NODE_ENV, lastId, jobVars>>

(* --------------------------- resetPassword ----------------------------- *)
(* resetPassword's checks, were neither the token's exp nor the stored     *)
(* resetTokenExpiry looked at                                               *)
ResetCheckIgnoresExpiry(tbl, token, newPassword, t) ==
    IF token = NoToken
    THEN [status |-> 400, message |-> "Token and new password are required"]
    ELSE IF ~validatePassword(newPassword)
    THEN [status |-> 400, message |-> "Password must be at least 6 characters"]
    ELSE IF token.secret # JWT_SECRET
    THEN [status |-> 400, message |-> "Invalid or expired reset token"]
    ELSE IF \/ token.userId \notin DOMAIN tbl
            \/ tbl[token.userId].resetToken # token
    THEN [status |-> 400, message |-> "Invalid or expired reset token"]
    ELSE [status |-> 200, message |-> "Password reset successful"]

(* the answer resetPassword's checks lead to: verifyToken under JWT_SECRET, *)
(* then findFirst({id, resetToken: token, resetTokenExpiry > now})          *)
ResetCheck(tbl, token, newPassword, t) ==
    IF token = NoToken
    THEN [status |-> 400, message |-> "Token and new password are required"]
    ELSE IF ~validatePassword(newPassword)
    THEN [status |-> 400, message |-> "Password must be at least 6 characters"]
    ELSE IF verifyToken(token, JWT_SECRET, t) # "ok"
    THEN [status |-> 400, message |-> "Invalid or expired reset token"]
    ELSE IF \/ token.userId \notin DOMAIN tbl
            \/ tbl[token.userId].resetToken # token
            \/ tbl[token.userId].resetTokenExpiry = NoExpiry
            \/ ~(tbl[token.userId].resetTokenExpiry > t)
    THEN [status |-> 400, message |-> "Invalid or expired reset token"]
    ELSE [status |-> 200, message |-> "Password reset successful"]

(* resetPassword up to the store read *)
ResetLookup ==
    \E token \in Presentable \cup {NoToken}, newPassword \in Passwords :
       /\ LET chk == ResetCheck(users, token, newPassword, now)
          IN IF chk.status # 200
             THEN /\ resp' = [Response("resetPassword", chk.status, chk.message)
                                EXCEPT !.token = token]
                  /\ UNCHANGED reqs
             ELSE /\ Len(reqs) < MaxReqs
                  /\ reqs' = Append(reqs, NewReq("reset", token, newPassword))
                  /\ resp' = NoResp
       /\ UNCHANGED <<users, now, NODE_ENV, lastId, jobVars>>

(* resetPassword after the read: store the new hash, wipe the tokens *)
ResetUpdate(r) ==
    /\ r \in DOMAIN reqs
    /\ reqs[r].kind = "reset"
    /\ LET id == reqs[r].token.userId
       IN /\ users' = [users EXCEPT
                         ![id].password = hashPassword(reqs[r].newPassword),
                         ![id].resetToken = NoToken,
                         ![id].resetTokenExpiry = NoExpiry,
                         ![id].refreshToken = NoToken]
          /\ reqs' = Remove([q \in DOMAIN reqs |->
                               IF reqs[q].kind = "reset" /\ reqs[q].token = reqs[r].token
                               THEN [reqs[q] EXCEPT !.raced = TRUE]
                               ELSE IF reqs[q].kind = "refresh" /\ reqs[q].token.userId = id
                               THEN [reqs[q] EXCEPT !.stale = TRUE]
                               ELSE reqs[q]], r)
          /\ resp' = [Response("resetPassword", 200, "Password reset successful")
                        EXCEPT !.userId = id, !.token = reqs[r].token,
                               !.prev = users[id].refreshToken,
                               !.password = reqs[r].newPassword,
                               !.raced = reqs[r].raced]
    /\ UNCHANGED <<now, NODE_ENV, lastId, jobVars>>

(* resetPassword, were the stored reset token consumed by a rejected        *)
(* attempt of its user as well                                              *)
ResetPasswordConsumesOnReject ==
    \E token \in Presentable \cup {NoToken}, newPassword \in Passwords :
       /\ LET chk == ResetCheck(users, token, newPassword, now)
              id == token.userId
          IN IF chk.status # 200
             THEN /\ resp' = [Response("resetPassword", chk.status, chk.message)
                                EXCEPT !.token = token]
                  /\ users' = IF id \in DOMAIN users
                              THEN [users EXCEPT ![id].resetToken = NoToken,
                                                 ![id].resetTokenExpiry = NoExpiry]
                              ELSE users
             ELSE /\ users' = [users EXCEPT
                                  ![id].password = hashPassword(newPassword),
                                  ![id].resetToken = NoToken,
                                  ![id].resetTokenExpiry = NoExpiry,
                                  ![id].refreshToken = NoToken]
                  /\ resp' = [Response("resetPassword", 200, "Password reset successful")
                                EXCEPT !.userId = id, !.token = token,
                                       !.prev = users[id].refreshToken,
                                       !.password = newPassword]
       /\ UNCHANGED <<now, reqs, NODE_ENV, lastId, jobVars>>

(* resetPassword, start to end with no other request in between *)
ResetPassword ==
    \E token \in Presentable \cup {NoToken}, newPassword \in Passwords :
       /\ LET chk == ResetCheck(users, token, newPassword, now)
              id == token.userId
          IN IF chk.status # 200
             THEN /\ resp' = [Response("resetPassword", chk.status, chk.message)
                                EXCEPT !.token = token]
                  /\ UNCHANGED users
             ELSE /\ users' = [users EXCEPT
                                  ![id].password = hashPassword(newPassword),
                                  ![id].resetToken = NoToken,
                                  ![id].resetTokenExpiry = NoExpiry,
                                  ![id].refreshToken = NoToken]
                  /\ resp' = [Response("resetPassword", 200, "Password reset successful")
                                EXCEPT !.userId = id, !.token = token,
                                       !.prev = users[id].refreshToken,
                                       !.password = newPassword]
       /\ UNCHANGED <<now, reqs, NODE_ENV, lastId, jobVars>>

(* ----------------------------- updateUser ------------------------------ *)
(* PUT /api/users/:id with body {role, isActive} ("" / "keep": field absent): *)
(* authenticate, then updateUser                                             *)
(* the {role, isActive} a body carries: one of the two fields, the other    *)
(* absent                                                                   *)
UpdateBodies ==
    {<<r, "keep">> : r \in Roles} \cup {<<"", a>> : a \in {"true", "false"}}

(* the row updateUser writes, were role and isActive taken from any caller *)
updateDataAnyCaller(callerRole, row, role, isActive) ==
    [row EXCEPT !.role = IF role # "" THEN role ELSE row.role,
                !.isActive = IF isActive # "keep" THEN isActive = "true"
                             ELSE row.isActive]

(* the row updateUser writes: role and isActive are put into updateData     *)
(* only when req.user.role is ADMIN                                         *)
updateData(callerRole, row, role, isActive) ==
    IF callerRole = "ADMIN"
    THEN [row EXCEPT !.role = IF role # "" THEN role ELSE row.role,
                     !.isActive = IF isActive # "keep" THEN isActive = "true"
                                  ELSE row.isActive]
    ELSE row

UpdateUser ==
    \E token \in Presentable \cup {NoToken}, id \in UserIds, body \in UpdateBodies :
     LET role == body[1]
         isActive == body[2]
     IN
       /\ LET a == authenticate(users, token, now)
          IN IF a.status # 200
             THEN /\ resp' = [Response("updateUser", a.status, a.message)
                                EXCEPT !.token = token]
                  /\ UNCHANGED users
             ELSE IF users[a.userId].role # "ADMIN" /\ a.userId # id
             THEN /\ resp' = [Response("updateUser", 403, "Access denied")
                                EXCEPT !.token = token]
                  /\ UNCHANGED users
             ELSE IF id \notin DOMAIN users
             THEN /\ resp' = [Response("updateUser", 404, "User not found")
                                EXCEPT !.token = token]
                  /\ UNCHANGED users
             ELSE /\ users' = [users EXCEPT
                                  ![id] = updateData(users[a.userId].role, users[id],
                                                     role, isActive)]
                  /\ resp' = [Response("updateUser", 200, "User updated successfully")
                                EXCEPT !.userId = id, !.token = token]
       /\ UNCHANGED <<now, reqs, NODE_ENV, lastId, jobVars>>

(* -------------------------- changeMyPassword --------------------------- *)
(* changeMyPassword's update, were the refresh token left in place *)
changeMyPasswordKeepsSession(tbl, id, newPassword) ==
    [tbl EXCEPT ![id].password = hashPassword(newPassword)]

(* the table after changeMyPassword's update: the new hash, refreshToken    *)
(* null                                                                     *)
changeMyPassword(tbl, id, newPassword) ==
    [tbl EXCEPT ![id].password = hashPassword(newPassword),
                ![id].refreshToken = NoToken]

(* PATCH /api/users/me/password: authenticate, then changeMyPassword *)
ChangeMyPassword ==
    \E token \in Presentable \cup {NoToken},
       currentPassword \in Passwords, newPassword \in Passwords :
       /\ LET a == authenticate(users, token, now)
          IN IF a.status # 200
             THEN /\ resp' = [Response("changeMyPassword", a.status, a.message)
                                EXCEPT !.token = token]
                  /\ UNCHANGED users
             ELSE IF ~validatePassword(newPassword)
             THEN /\ resp' = [Response("changeMyPassword", 400,
                                       "New password must be at least 6 characters")
                                EXCEPT !.token = token]
                  /\ UNCHANGED users
             ELSE IF ~comparePassword(currentPassword, users[a.userId].password)
             THEN /\ resp' = [Response("changeMyPassword", 400,
                                       "Current password is incorrect")
                                EXCEPT !.token = token]
                  /\ UNCHANGED users
             ELSE /\ users' = changeMyPassword(users, a.userId, newPassword)
                  /\ resp' = [Response("changeMyPassword", 200,
                                       "Password changed successfully. Please login again.")
                                EXCEPT !.userId = a.userId, !.token = token,
                                       !.email = users[a.userId].email,
                                       !.password = newPassword,
                                       !.prev = users[a.userId].refreshToken]
       /\ UNCHANGED <<now, reqs, NODE_ENV, lastId, jobVars>>

(* ----------------------------- deleteUser ------------------------------ *)
(* DELETE /api/users/:id: authenticate, authorize(['ADMIN']), deleteUser     *)
DeleteUser ==
    \E token \in Presentable \cup {NoToken}, id \in UserIds :
       /\ LET a == authenticate(users, token, now)
              gate == authorize({"ADMIN"}, users[a.userId].role)
          IN IF a.status # 200
             THEN /\ resp' = [Response("deleteUser", a.status, a.message)
                                EXCEPT !.token = token]
                  /\ UNCHANGED users
             ELSE IF gate.status # 200
             THEN /\ resp' = [Response("deleteUser", gate.status, gate.message)
                                EXCEPT !.token = token]
                  /\ UNCHANGED users
             ELSE IF users[a.userId].role # "ADMIN"
             THEN /\ resp' = [Response("deleteUser", 403, "Access denied")
                                EXCEPT !.token = token]
                  /\ UNCHANGED users
             ELSE IF a.userId = id
             THEN /\ resp' = [Response("deleteUser", 400, "Cannot delete your own account")
                                EXCEPT !.token = token]
                  /\ UNCHANGED users
             ELSE IF id \notin DOMAIN users
             THEN /\ resp' = [Response("deleteUser", 404, "User not found")
                                EXCEPT !.token = token]
                  /\ UNCHANGED users
             ELSE /\ users' = [u \in DOMAIN users \ {id} |-> users[u]]
                  /\ resp' = [Response("deleteUser", 200, "User deleted successfully")
                                EXCEPT !.userId = id, !.token = token,
                                       !.prev = users[id].refreshToken]
       /\ UNCHANGED <<now, reqs, NODE_ENV, lastId, jobVars>>

(* ------------------------- notification publisher ---------------------- *)
(* The Redis client: "closed" (isOpen false), "ready" (publish resolves),   *)
(* "failing" (publish rejects), "stalled" (isOpen true, the command is      *)
(* queued and its promise stays pending while the client is in this state). *)
RedisStates == {"closed", "ready", "failing", "stalled"}

(* publishEvent, were its body not wrapped in try/catch *)
publishEventUncaught(client) ==
    IF client = "closed" THEN "false"
    ELSE IF client = "ready" THEN "true"
    ELSE IF client = "failing" THEN "throw"
    ELSE "pending"

(* how the promise of publishEvent settles: "true", "false", "throw"        *)
(* (rejected), or "pending" while redisClient.publish has not settled       *)
publishEvent(client) ==
    IF client = "closed" THEN "false"
    ELSE IF client = "ready" THEN "true"
    ELSE IF client = "failing" THEN "false"
    ELSE "pending"

(* the connection changes state; the commands queued while it was stalled  *)
(* are sent (ready) or rejected (closed, failing)                           *)
RedisChange ==
    /\ \E c \in RedisStates \ {redisClient} :
          /\ redisClient' = c
          /\ awaiting' = [r \in DOMAIN awaiting |->
                            IF awaiting[r].settled = "pending"
                            THEN [awaiting[r] EXCEPT !.settled = publishEvent(c)]
                            ELSE awaiting[r]]
    /\ resp' = NoResp
    /\ UNCHANGED <<users, now, reqs, NODE_ENV, lastId, jobs, applications>>

(* ---------------------------- job controller --------------------------- *)
JobOps == {"createJob", "applyJob", "updateApplicationStatus"}

(* the statuses a PATCH body carries: a valid one, and one that is not *)
StatusInputs == {"REVIEWED", "INVALID"}

validStatuses == {"PENDING", "REVIEWED", "ACCEPTED", "REJECTED"}

(* a handler that has written its row and called publish<Event>: it sends   *)
(* the success response (status) when the awaited promise has settled       *)
Awaiting(op, channel, status, userId, table, row) ==
    [op |-> op, channel |-> channel, status |-> status, userId |-> userId,
     table |-> table, row |-> row, settled |-> publishEvent(redisClient)]

(* POST /api/jobs: authenticate, authorize(['RECRUITER', 'ADMIN']), then    *)
(* createJob up to its await of publishJobCreated                           *)
CreateJob ==
    \E token \in Presentable \cup {NoToken}, complete \in BOOLEAN :
       /\ LET a == authenticate(users, token, now)
              gate == authorize({"RECRUITER", "ADMIN"}, users[a.userId].role)
          IN IF a.status # 200
             THEN /\ resp' = [Response("createJob", a.status, a.message)
                                EXCEPT !.token = token]
                  /\ UNCHANGED <<jobs, awaiting>>
             ELSE IF gate.status # 200
             THEN /\ resp' = [Response("createJob", gate.status, gate.message)
                                EXCEPT !.token = token]
                  /\ UNCHANGED <<jobs, awaiting>>
             ELSE IF ~complete
             THEN /\ resp' = [Response("createJob", 400,
                                       "Title, description, and company are required")
                                EXCEPT !.token = token]
                  /\ UNCHANGED <<jobs, awaiting>>
             ELSE /\ Len(jobs) < MaxJobs
                  /\ Len(awaiting) < MaxAwaiting
                  /\ jobs' = Append(jobs, [ownerId |-> a.userId, status |-> "OPEN"])
                  /\ awaiting' = Append(awaiting,
                                        Awaiting("createJob", "job.created", 201,
                                                 a.userId, "jobs", Len(jobs) + 1))
                  /\ resp' = NoResp
       /\ UNCHANGED <<users, now, reqs, NODE_ENV, lastId, applications, redisClient>>

(* POST /api/jobs/:jobId/apply: authenticate, then applyJob up to its await *)
(* of publishJobApplied                                                     *)
ApplyJob ==
    \E token \in Presentable \cup {NoToken}, jobId \in 1..(Len(jobs) + 1) :
       /\ LET a == authenticate(users, token, now)
          IN IF a.status # 200
             THEN /\ resp' = [Response("applyJob", a.status, a.message)
                                EXCEPT !.token = token]
                  /\ UNCHANGED <<applications, awaiting>>
             ELSE IF jobId \notin DOMAIN jobs
             THEN /\ resp' = [Response("applyJob", 404, "Job not found")
                                EXCEPT !.token = token]
                  /\ UNCHANGED <<applications, awaiting>>
             ELSE IF jobs[jobId].status # "OPEN"
             THEN /\ resp' = [Response("applyJob", 400,
                                       "This job is no longer accepting applications")
                                EXCEPT !.token = token]
                  /\ UNCHANGED <<applications, awaiting>>
             ELSE IF jobs[jobId].ownerId = a.userId
             THEN /\ resp' = [Response("applyJob", 400, "You cannot apply for your own job")
                                EXCEPT !.token = token]
                  /\ UNCHANGED <<applications, awaiting>>
             ELSE IF \E i \in DOMAIN applications :
                        /\ applications[i].jobId = jobId
                        /\ applications[i].applicantId = a.userId
             THEN /\ resp' = [Response("applyJob", 400,
                                       "You have already applied for this job")
                                EXCEPT !.token = token]
                  /\ UNCHANGED <<applications, awaiting>>
             ELSE /\ Len(awaiting) < MaxAwaiting
                  /\ applications' = Append(applications,
                                            [jobId |-> jobId, applicantId |-> a.userId,
                                             status |-> "PENDING"])
                  /\ awaiting' = Append(awaiting,
                                        Awaiting("applyJob", "job.applied", 201,
                                                 a.userId, "applications",
                                                 Len(applications) + 1))
                  /\ resp' = NoResp
       /\ UNCHANGED <<users, now, reqs, NODE_ENV, lastId, jobs, redisClient>>

(* PATCH /api/jobs/:jobId/applicants/:applicationId: authenticate,          *)
(* authorize(['RECRUITER', 'ADMIN']), then updateApplicationStatus up to    *)
(* its await of publishApplicationStatusChanged                             *)
UpdateApplicationStatus ==
    \E token \in Presentable \cup {NoToken}, jobId \in 1..(Len(jobs) + 1),
       applicationId \in 1..(Len(applications) + 1), status \in StatusInputs :
       /\ LET a == authenticate(users, token, now)
              gate == authorize({"RECRUITER", "ADMIN"}, users[a.userId].role)
          IN IF a.status # 200
             THEN /\ resp' = [Response("updateApplicationStatus", a.status, a.message)
                                EXCEPT !.token = token]
                  /\ UNCHANGED <<applications, awaiting>>
             ELSE IF gate.status # 200
             THEN /\ resp' = [Response("updateApplicationStatus", gate.status, gate.message)
                                EXCEPT !.token = token]
                  /\ UNCHANGED <<applications, awaiting>>
             ELSE IF status \notin validStatuses
             THEN /\ resp' = [Response("updateApplicationStatus", 400, "Invalid status")
                                EXCEPT !.token = token]
                  /\ UNCHANGED <<applications, awaiting>>
             ELSE IF applicationId \notin DOMAIN applications
             THEN /\ resp' = [Response("updateApplicationStatus", 404,
                                       "Application not found")
                                EXCEPT !.token = token]
                  /\ UNCHANGED <<applications, awaiting>>
             ELSE IF applications[applicationId].jobId # jobId
             THEN /\ resp' = [Response("updateApplicationStatus", 400,
                                       "Application does not belong to this job")
                                EXCEPT !.token = token]
                  /\ UNCHANGED <<applications, awaiting>>
             ELSE IF /\ jobs[applications[applicationId].jobId].ownerId # a.userId
                     /\ users[a.userId].role # "ADMIN"
             THEN /\ resp' = [Response("updateApplicationStatus", 403,
                                       "You are not authorized to update this application")
                                EXCEPT !.token = token]
                  /\ UNCHANGED <<applications, awaiting>>
             ELSE /\ Len(awaiting) < MaxAwaiting
                  /\ applications' = [applications EXCEPT ![applicationId].status = status]
                  /\ awaiting' = Append(awaiting,
                                        Awaiting("updateApplicationStatus",
                                                 "application.status.changed", 200,
                                                 a.userId, "applications", applicationId))
                  /\ resp' = NoResp
       /\ UNCHANGED <<users, now, reqs, NODE_ENV, lastId, jobs, redisClient>>

(* a job handler from its await on: the promise of publishEvent has         *)
(* settled; a rejection goes to the handler's catch (500), anything else to *)
(* its success response                                                     *)
JobRespond(r) ==
    /\ r \in DOMAIN awaiting
    /\ LET settled == awaiting[r].settled
       IN /\ settled # "pending"
          /\ resp' = [Response(awaiting[r].op,
                               IF settled = "throw" THEN 500 ELSE awaiting[r].status, "")
                        EXCEPT !.userId = awaiting[r].userId, !.settled = settled]
    /\ awaiting' = Remove(awaiting, r)
    /\ UNCHANGED <<users, now, reqs, NODE_ENV, lastId, jobs, applications, redisClient>>

(* ------------------------- specifications ------------------------------ *)
(* Spec: an empty table; accounts come from register (role USER).          *)
Next ==
    \/ Tick
    \/ Register
    \/ Login
    \/ GetMyProfile
    \/ Logout
    \/ ForgotPassword
    \/ RefreshLookup
    \/ \E r \in ReqIds : RefreshUpdate(r)
    \/ ResetLookup
    \/ \E r \in ReqIds : ResetUpdate(r)

Spec == Init /\ [][Next]_vars

(* SpecAdmin: the table is seeded with an administrator, who can change     *)
(* role and isActive; the session operations run against it.                *)
InitAdmin ==
    /\ users = (1 :> [NewUser("a@b.com", "secret1") EXCEPT !.role = "ADMIN"])
    /\ now = 0
    /\ reqs = <<>>
    /\ resp = NoResp
    /\ NODE_ENV = "production"
    /\ lastId = 1
    /\ InitBoard

NextAdmin ==
    \/ Tick
    \/ Login
    \/ GetMyProfile
    \/ Logout
    \/ RefreshLookup
    \/ \E r \in ReqIds : RefreshUpdate(r)
    \/ UpdateUser

SpecAdmin == InitAdmin /\ [][NextAdmin]_vars

(* The session life cycle alone: the /auth routes that issue, rotate and    *)
(* clear the stored refresh token, starting from the empty table.           *)
NextSession ==
    \/ Tick
    \/ Register
    \/ Login
    \/ GetMyProfile
    \/ Logout
    \/ RefreshLookup
    \/ \E r \in ReqIds : RefreshUpdate(r)

SpecSession == Init /\ [][NextSession]_vars

(* SpecUsers: an administrator (AdminEmail) is seeded; other accounts       *)
(* register, are deactivated, reactivated and deleted by the administrator. *)
InitUsers ==
    /\ users = (1 :> [NewUser(AdminEmail, "secret1") EXCEPT !.role = "ADMIN"])
    /\ now = 0
    /\ reqs = <<>>
    /\ resp = NoResp
    /\ NODE_ENV = "production"
    /\ lastId = 1
    /\ InitBoard

NextUsers ==
    \/ Tick
    \/ Register
    \/ Login
    \/ GetMyProfile
    \/ UpdateUser
    \/ DeleteUser

SpecUsers == InitUsers /\ [][NextUsers]_vars

(* SpecGate: the role gate, on the accounts of SpecUsers. *)
NextGate ==
    \/ Tick
    \/ Register
    \/ Login
    \/ Authorize

SpecGate == InitUsers /\ [][NextGate]_vars

(* SpecRegister: register in its two steps, so that registrations overlap. *)
NextRegister ==
    \/ Tick
    \/ RegisterLookup
    \/ \E r \in ReqIds : RegisterCreate(r)
    \/ Login
    \/ GetMyProfile

SpecRegister == Init /\ [][NextRegister]_vars

(* SpecPassword: the session life cycle with changeMyPassword. *)
NextPassword ==
    \/ Tick
    \/ Register
    \/ Login
    \/ RefreshLookup
    \/ \E r \in ReqIds : RefreshUpdate(r)
    \/ ChangeMyPassword

SpecPassword == Init /\ [][NextPassword]_vars

(* SpecExpiry: tokens are issued, the clock passes their expiry, and they   *)
(* are presented to authenticate, refreshToken and resetPassword.           *)
NextExpiry ==
    \/ Tick
    \/ Register
    \/ GetMyProfile
    \/ ForgotPassword
    \/ RefreshToken
    \/ ResetPassword

SpecExpiry == Init /\ [][NextExpiry]_vars

(* SpecOptional: an administrator and a user; the user logs in, is          *)
(* deactivated, reactivated or deleted, and requests pass optionalAuth.     *)
InitPair ==
    /\ users = (1 :> [NewUser(AdminEmail, "secret1") EXCEPT !.role = "ADMIN"])
                  @@ (2 :> NewUser("a@b.com", "secret1"))
    /\ now = 0
    /\ reqs = <<>>
    /\ resp = NoResp
    /\ NODE_ENV = "production"
    /\ lastId = 2
    /\ InitBoard

NextOptional ==
    \/ Tick
    \/ Login
    \/ UpdateUser
    \/ DeleteUser
    \/ OptionalAuth

SpecOptional == InitPair /\ [][NextOptional]_vars

(* SpecJobs: an administrator and a user, both logged in; the              *)
(* administrator posts a job, the user applies, the administrator reviews   *)
(* the application, while the Redis connection comes and goes.              *)
InitJobs ==
    /\ users = (1 :> [NewUser(AdminEmail, "secret1") EXCEPT
                         !.role = "ADMIN",
                         !.refreshToken = generateRefreshToken(1, 0)])
                  @@ (2 :> [NewUser("a@b.com", "secret1") EXCEPT
                              !.refreshToken = generateRefreshToken(2, 0)])
    /\ now = 0
    /\ reqs = <<>>
    /\ resp = NoResp
    /\ NODE_ENV = "production"
    /\ lastId = 2
    /\ InitBoard

NextJobs ==
    \/ CreateJob
    \/ ApplyJob
    \/ UpdateApplicationStatus
    \/ \E r \in 1..MaxAwaiting : JobRespond(r)
    \/ RedisChange

SpecJobs == InitJobs /\ [][NextJobs]_vars

(* SpecJobsLive: a handler whose awaited promise has settled runs on (the   *)
(* event loop resumes it); nothing makes the Redis connection change.       *)
SpecJobsLive ==
    InitJobs /\ [][NextJobs]_vars /\ \A r \in 1..MaxAwaiting : WF_vars(JobRespond(r))

(* SpecRevoke: sessions are opened and then ended by logout, password      *)
(* change and password reset, and access tokens are presented afterwards.   *)
NextRevoke ==
    \/ Tick
    \/ Register
    \/ Login
    \/ GetMyProfile
    \/ Logout
    \/ ChangeMyPassword
    \/ RefreshToken
    \/ ForgotPassword
    \/ ResetPassword

SpecRevoke == Init /\ [][NextRevoke]_vars

(* ------------------------------ claims --------------------------------- *)
(* C1: once a refresh has succeeded with refresh token T, a refresh that    *)
(* presents T again (here: as the very next request) is rejected with 401.  *)
C1_RotatedTokenRejected ==
    (resp.op = "refreshToken" /\ resp.status = 200)
        => RefreshCheck(users, resp.token, now).status = 401

(* C2: of two refresh requests that present the same token and overlap      *)
(* between their store read and their write, at most one succeeds: no       *)
(* refresh succeeds after an overlapping one with the same token did.       *)
C2_ConcurrentRefreshAtMostOne ==
    ~(resp.op = "refreshToken" /\ resp.status = 200 /\ resp.raced)

(* C3: a refresh passes its checks only when the presented token verifies   *)
(* under the refresh secret (signature and expiry), equals the refresh      *)
(* token stored on the user it names at the time the handler reads the      *)
(* store, and that user is active; a validly signed, unexpired refresh      *)
(* token that is not the stored value is answered 401 and writes nothing.   *)
C3_Step ==
    /\ (Len(reqs') > Len(reqs) /\ reqs'[Len(reqs')].kind = "refresh")
          => LET t == reqs'[Len(reqs')].token
             IN /\ t.secret = JWT_REFRESH_SECRET
                /\ now < t.exp
                /\ t.userId \in DOMAIN users
                /\ users[t.userId].refreshToken = t
                /\ users[t.userId].isActive
    /\ (/\ resp'.op = "refreshToken"
        /\ reqs' = reqs
        /\ resp'.token.secret = JWT_REFRESH_SECRET
        /\ now < resp'.token.exp
        /\ \/ resp'.token.userId \notin DOMAIN users
           \/ users[resp'.token.userId].refreshToken # resp'.token)
          => (resp'.status = 401 /\ users' = users)

C3_RefreshOnlyStoredToken == [][C3_Step]_vars

(* C3 witness: a validly signed, unexpired refresh token that is no longer  *)
(* the stored one has been presented to refresh and answered 401.           *)
C3_Witness ==
    /\ resp.op = "refreshToken"
    /\ resp.status = 401
    /\ resp.token.secret = JWT_REFRESH_SECRET
    /\ now < resp.token.exp
    /\ resp.token.userId \in DOMAIN users
    /\ users[resp.token.userId].isActive
    /\ users[resp.token.userId].refreshToken # resp.token
    /\ users[resp.token.userId].refreshToken # NoToken

(* C4: once a resetPassword for u has completed, u's stored refresh token   *)
(* is null and no refresh for u returns tokens until u logs in again, not   *)
(* even one that had read the store before the reset.                       *)
C4_ResetLogsOutEverySession ==
    /\ (resp.op = "resetPassword" /\ resp.status = 200)
          => users[resp.userId].refreshToken = NoToken
    /\ ~(resp.op = "refreshToken" /\ resp.status = 200 /\ resp.stale)

(* C5: after a successful login the refresh token it superseded (issued     *)
(* earlier by register, login or refresh) is rejected by refresh.           *)
C5_LoginSupersedesOldToken ==
    (resp.op = "login" /\ resp.status = 200 /\ resp.prev # NoToken)
        => RefreshCheck(users, resp.prev, now).status = 401

(* C6: after a logout by an authenticated caller the user's stored refresh  *)
(* token is null, a refresh with the token that was stored is answered 401, *)
(* and the same logout again succeeds and leaves the table as it is.        *)
C6_LogoutClearsSession ==
    (resp.op = "logout" /\ resp.userId # 0)
        => /\ resp.status = 200
           /\ resp.userId \in DOMAIN users
           /\ users[resp.userId].refreshToken = NoToken
           /\ resp.prev # NoToken => RefreshCheck(users, resp.prev, now).status = 401
           /\ optionalAuth(users, resp.token, now) = resp.userId
           /\ logout(users, resp.token, now) = users

(* C6 witness: an authenticated logout has just wiped a stored refresh token *)
C6_Witness ==
    /\ resp.op = "logout"
    /\ resp.userId # 0
    /\ resp.prev # NoToken
    /\ resp.prev.secret = JWT_REFRESH_SECRET
    /\ now < resp.prev.exp

(* C7: password-reset round trip.  A resetPassword presenting the stored,   *)
(* unexpired reset token with a valid new password succeeds; once it has    *)
(* succeeded, login succeeds with the new password and with no other (so    *)
(* the old one fails with 401), and the refresh token the reset wiped,      *)
(* issued before the reset, is rejected by refresh: then, and after         *)
(* whatever request comes next (such as the login with the new password).   *)
C7_Step ==
    /\ \A u \in DOMAIN users :
          (users[u].resetToken # NoToken /\ now < users[u].resetTokenExpiry)
             => \A p \in Passwords :
                   validatePassword(p)
                      => ResetCheck(users, users[u].resetToken, p, now).status = 200
    /\ (resp.op = "resetPassword" /\ resp.status = 200)
          => /\ \A p \in Passwords :
                   LoginCheck(users, users[resp.userId].email, p).status
                      = IF p = resp.password THEN 200 ELSE 401
             /\ resp.prev # NoToken
                   => /\ RefreshCheck(users, resp.prev, now).status = 401
                      /\ RefreshCheck(users', resp.prev, now').status = 401

C7_ResetRoundTrip == [][C7_Step]_vars

(* C8: a reset token authorizes one password change.  After resetPassword   *)
(* has succeeded with token R, a resetPassword presenting R fails with 400  *)
(* (then, and after whatever request comes next); and no resetPassword      *)
(* succeeds after an overlapping one with the same token did.               *)
C8_Step ==
    /\ (resp.op = "resetPassword" /\ resp.status = 200)
          => \A p \in Passwords :
                /\ ResetCheck(users, resp.token, p, now).status = 400
                /\ ResetCheck(users', resp.token, p, now').status = 400
    /\ ~(resp'.op = "resetPassword" /\ resp'.status = 200 /\ resp'.raced)

C8_ResetTokenSingleUse == [][C8_Step]_vars

(* C9: purpose separation between access and refresh tokens.  A token       *)
(* signed as a refresh token never yields an identity from authenticate or  *)
(* optionalAuth; a token signed with the access secret is answered 401 by   *)
(* refresh and never reaches refresh's write.                               *)
C9_AccessRefreshSeparation ==
    /\ \A t \in Presentable :
          t.secret = JWT_REFRESH_SECRET
             => /\ authenticate(users, t, now).status = 401
                /\ authenticate(users, t, now).userId = 0
                /\ optionalAuth(users, t, now) = 0
    /\ \A t \in Presentable :
          t.secret = JWT_SECRET => RefreshCheck(users, t, now).status = 401
    /\ \A r \in DOMAIN reqs :
          reqs[r].kind = "refresh" => reqs[r].token.secret = JWT_REFRESH_SECRET
    /\ (resp.op \in {"authenticate", "logout"} /\ resp.token.secret = JWT_REFRESH_SECRET)
          => resp.userId = 0
    /\ (resp.op = "refreshToken" /\ resp.token.secret = JWT_SECRET)
          => resp.status = 401

(* C9 witness: the live, unexpired refresh token of an active user has been *)
(* presented as the access credential and answered 401.                     *)
C9_Witness ==
    /\ resp.op = "authenticate"
    /\ resp.status = 401
    /\ resp.userId = 0
    /\ resp.token.secret = JWT_REFRESH_SECRET
    /\ now < resp.token.exp
    /\ resp.token.userId \in DOMAIN users
    /\ users[resp.token.userId].isActive
    /\ users[resp.token.userId].refreshToken = resp.token

(* C10: a password-reset token presented as the access credential is        *)
(* rejected by authenticate: no identity is attached.                       *)
C10_ResetTokenNotAccess ==
    (/\ resp.op = "authenticate"
     /\ resp.token.userId \in DOMAIN users
     /\ resp.token = users[resp.token.userId].resetToken)
        => (resp.status = 401 /\ resp.userId = 0)

(* C11: enumeration resistance of forgotPassword.  For every well-formed   *)
(* email and every NODE_ENV the answer (status, message, data) is the one   *)
(* given when no user has that email.                                       *)
C11_ForgotEnumerationResistance ==
    (resp.op = "forgotPassword" /\ resp.status # 400)
       => LET unknown == forgotPasswordResponse(<<>>, "a@b.com", NODE_ENV, now)
          IN /\ resp.status = unknown.status
             /\ resp.message = unknown.message
             /\ resp.data = unknown.data

(* C12: login indistinguishability.  A login that names an existing        *)
(* account with a wrong password is answered exactly as a login with an     *)
(* email no account has, whatever the state of the account.                 *)
C12_LoginIndistinguishable ==
    (/\ resp.op = "login"
     /\ findByEmail(users, resp.email) # {}
     /\ \A u \in findByEmail(users, resp.email) :
           ~comparePassword(resp.password, users[u].password))
       => LET unknown == LoginCheck(<<>>, resp.email, resp.password)
          IN /\ resp.status = unknown.status
             /\ resp.message = unknown.message

(* C13: authenticate fails closed.  It attaches an identity (and calls the  *)
(* next handler) exactly when the token is present, verifies under the      *)
(* access secret, is unexpired, and names an existing user with isActive    *)
(* true; otherwise it answers 401 and attaches nothing.                     *)
C13_Admissible(token) ==
    /\ token # NoToken
    /\ token.secret = JWT_SECRET
    /\ now < token.exp
    /\ token.userId \in DOMAIN users
    /\ users[token.userId].isActive

C13_AuthenticateFailsClosed ==
    /\ \A token \in Presentable \cup {NoToken, MalformedToken} :
          LET a == authenticate(users, token, now)
          IN IF C13_Admissible(token)
             THEN a.status = 200 /\ a.userId = token.userId
             ELSE a.status = 401 /\ a.userId = 0
    /\ resp.op = "authenticate"
          => IF C13_Admissible(resp.token)
             THEN resp.status = 200 /\ resp.userId = resp.token.userId
             ELSE resp.status = 401 /\ resp.userId = 0

(* C13 witness: an unexpired access token whose subject has been deleted    *)
(* was presented and answered 401 with no identity.                         *)
C13_Witness ==
    /\ resp.op = "authenticate"
    /\ resp.status = 401
    /\ resp.userId = 0
    /\ resp.token.secret = JWT_SECRET
    /\ now < resp.token.exp
    /\ resp.token.userId \notin DOMAIN users

(* C14: authorize(allowedRoles) lets a request through only if an identity  *)
(* is attached and its role is a member of allowedRoles; without identity   *)
(* it answers 401, with a role outside allowedRoles 403.                    *)
C14_AuthorizeGate ==
    resp.op = "authorize"
       => IF resp.userId = 0 THEN resp.status = 401
          ELSE IF users[resp.userId].role \in resp.roles THEN resp.status = 200
          ELSE resp.status = 403

(* C15: only a caller authenticated as ADMIN changes a role or isActive.    *)
(* A row that register creates has role USER and isActive true whatever the *)
(* body says; a step that changes role or isActive of a row is an           *)
(* updateUser by an ADMIN; an updateUser by a non-admin changes neither     *)
(* field of any row and leaves every other user's row as it was.            *)
C15_Caller == optionalAuth(users, resp'.token, now)

C15_Step ==
    /\ \A u \in DOMAIN users' \ DOMAIN users :
          /\ resp'.op = "register"
          /\ users'[u].role = "USER"
          /\ users'[u].isActive
    /\ \A u \in DOMAIN users' \cap DOMAIN users :
          (users'[u].role # users[u].role \/ users'[u].isActive # users[u].isActive)
             => /\ resp'.op = "updateUser"
                /\ C15_Caller # 0
                /\ users[C15_Caller].role = "ADMIN"
    /\ (resp'.op = "updateUser" /\ C15_Caller # 0 /\ users[C15_Caller].role # "ADMIN")
          => /\ DOMAIN users' = DOMAIN users
             /\ \A u \in DOMAIN users :
                   /\ users'[u].role = users[u].role
                   /\ users'[u].isActive = users[u].isActive
                   /\ u # C15_Caller => users'[u] = users[u]

C15_OnlyAdminChangesRole == [][C15_Step]_vars

(* C15 witness: an updateUser by a non-admin on the caller's own row has    *)
(* been accepted, and the caller is still an active USER.                   *)
C15_Witness ==
    /\ resp.op = "updateUser"
    /\ resp.status = 200
    /\ resp.userId \in DOMAIN users
    /\ optionalAuth(users, resp.token, now) = resp.userId
    /\ users[resp.userId].role = "USER"

(* C16: isActive false blocks all authentication.  While a user is          *)
(* inactive, login with any password is answered 401, refresh is answered   *)
(* 401 for every token of the user (the stored one included), and           *)
(* authenticate / optionalAuth attach no identity for any token of the      *)
(* user, unexpired ones issued while the user was active included.          *)
C16_InactiveBlocksAuth ==
    /\ \A u \in DOMAIN users :
          ~users[u].isActive
             => /\ \A p \in Passwords :
                      LoginCheck(users, users[u].email, p).status = 401
                /\ users[u].refreshToken # NoToken
                      => RefreshCheck(users, users[u].refreshToken, now).status = 401
                /\ \A t \in Presentable :
                      t.userId = u
                         => /\ RefreshCheck(users, t, now).status = 401
                            /\ authenticate(users, t, now).status = 401
                            /\ authenticate(users, t, now).userId = 0
                            /\ optionalAuth(users, t, now) = 0
    /\ (/\ resp.op \in {"login", "authenticate"}
        /\ \E u \in DOMAIN users :
              /\ ~users[u].isActive
              /\ (users[u].email = resp.email \/ resp.token.userId = u))
          => (resp.status = 401 /\ resp.userId = 0)

(* C16 witness: the stored, unexpired refresh token of a deactivated user   *)
(* was presented to refresh and answered 401.                               *)
C16_Witness ==
    /\ resp.op = "refreshToken"
    /\ resp.status = 401
    /\ resp.token.secret = JWT_REFRESH_SECRET
    /\ now < resp.token.exp
    /\ resp.token.userId \in DOMAIN users
    /\ ~users[resp.token.userId].isActive
    /\ users[resp.token.userId].refreshToken = resp.token

(* C17: a register whose email is taken is answered with the conflict error *)
(* 400 'Email already registered' and creates no user, also when the email  *)
(* was taken by a registration that ran at the same time; no two users      *)
(* share an email.                                                          *)
C17_RegisterConflict ==
    /\ \A u, v \in DOMAIN users : users[u].email = users[v].email => u = v
    /\ (/\ resp.op = "register"
        /\ resp.status # 201
        /\ validateEmail(resp.email)
        /\ validatePassword(resp.password))
          => /\ resp.status = 400
             /\ resp.message = "Email already registered"
             /\ findByEmail(users, resp.email) # {}

(* C18: a valid registration (well-formed unused email, password of at     *)
(* least 6 characters) is accepted and stores a refresh token for the new   *)
(* user; a login with the same credentials then succeeds and returns an     *)
(* access and a refresh token; the user object in register's and login's    *)
(* answer has neither the password hash nor the refresh token.              *)
C18_NoSecrets(user) == "password" \notin DOMAIN user /\ "refreshToken" \notin DOMAIN user

C18_Step ==
    /\ (/\ resp.op = "register"
        /\ validateEmail(resp.email)
        /\ validatePassword(resp.password)
        /\ resp.status # 201)
          => (resp.message = "Email already registered"
                /\ findByEmail(users, resp.email) # {})
    /\ (resp.op = "register" /\ resp.status = 201)
          => /\ users[resp.userId].refreshToken # NoToken
             /\ users[resp.userId].refreshToken = resp.data.refreshToken
             /\ resp.data.accessToken = generateAccessToken(resp.userId, now)
             /\ C18_NoSecrets(resp.data.user)
             /\ LoginCheck(users, resp.email, resp.password).status = 200
             /\ (resp'.op = "login" /\ resp'.email = resp.email
                   /\ resp'.password = resp.password)
                   => /\ resp'.status = 200
                      /\ resp'.userId = resp.userId
    /\ (resp.op = "login" /\ resp.status = 200)
          => /\ resp.data.accessToken = generateAccessToken(resp.userId, now)
             /\ resp.data.refreshToken = generateRefreshToken(resp.userId, now)
             /\ users[resp.userId].refreshToken = resp.data.refreshToken
             /\ C18_NoSecrets(resp.data.user)

C19_PasswordChangeClearsSession ==
    (resp.op = "changeMyPassword" /\ resp.status = 200)
       => /\ resp.userId \in DOMAIN users
          /\ users[resp.userId].refreshToken = NoToken
          /\ resp.prev # NoToken
                => RefreshCheck(users, resp.prev, now).status = 401
          /\ \A p \in Passwords :
                LoginCheck(users, resp.email, p).status
                   = IF p = resp.password THEN 200 ELSE 401

(* C19 witness: a password change has succeeded for a user who held an      *)
(* unexpired refresh token, and the new password differs from the old one.  *)
C19_Witness ==
    /\ resp.op = "changeMyPassword"
    /\ resp.status = 200
    /\ resp.prev # NoToken
    /\ now < resp.prev.exp
    /\ resp.password = "secret2"

(* C20: a new forgotPassword supersedes the earlier reset token.  Once a    *)
(* forgotPassword has replaced an unused reset token of the user, a         *)
(* resetPassword presenting the replaced token is answered 400 'Invalid or  *)
(* expired reset token'; resetPassword accepts no token but the one stored  *)
(* last.                                                                    *)
C20_ForgotSupersedes ==
    /\ \A t \in Presentable, p \in Passwords :
          ResetCheck(users, t, p, now).status = 200
             => (t.userId \in DOMAIN users /\ users[t.userId].resetToken = t)
    /\ (resp.op = "forgotPassword" /\ resp.status = 200 /\ resp.prev # NoToken)
          => \A p \in Passwords :
                validatePassword(p)
                   => /\ ResetCheck(users, resp.prev, p, now).status = 400
                      /\ ResetCheck(users, resp.prev, p, now).message
                            = "Invalid or expired reset token"

(* C21: tokens never collide.  The token an issue operation produces is a   *)
(* different string from the token of the same user and purpose that an     *)
(* earlier issue operation produced: the refresh token a login or a refresh *)
(* stores differs from the one it replaces, and the reset token a           *)
(* forgotPassword stores differs from the one it replaces.                  *)
C21_TokensNeverCollide ==
    /\ (/\ resp.op \in {"login", "refreshToken"}
        /\ resp.status = 200
        /\ resp.prev # NoToken)
          => /\ users[resp.userId].refreshToken # resp.prev
             /\ PairedAccess(users[resp.userId].refreshToken) # PairedAccess(resp.prev)
    /\ (resp.op = "forgotPassword" /\ resp.status = 200 /\ resp.prev # NoToken)
          => resp.token # resp.prev

(* C22: a token whose expiry has passed is rejected by every verifying      *)
(* operation, though its signature is valid and though it still equals the  *)
(* stored refresh or reset token: authenticate answers 401 'Token expired', *)
(* refresh 401 'Refresh token expired', resetPassword 400, also when only   *)
(* the stored resetTokenExpiry has passed; the request that is so answered  *)
(* changes no user record.                                                  *)
C22_Expired(token) == token \notin {NoToken, MalformedToken} /\ now >= token.exp

C22_Step ==
    /\ \A t \in Presentable :
          C22_Expired(t)
             => /\ t.secret = JWT_SECRET
                      => /\ authenticate(users, t, now).status = 401
                         /\ authenticate(users, t, now).message = "Token expired"
                         /\ authenticate(users, t, now).userId = 0
                         /\ \A p \in Passwords :
                               ResetCheck(users, t, p, now).status = 400
                /\ t.secret = JWT_REFRESH_SECRET
                      => /\ RefreshCheck(users, t, now).status = 401
                         /\ RefreshCheck(users, t, now).message = "Refresh token expired"
    /\ \A u \in DOMAIN users, p \in Passwords :
          users[u].resetToken # NoToken
             => ResetCheck([users EXCEPT ![u].resetTokenExpiry = now],
                           users[u].resetToken, p, now).status = 400
    /\ (/\ resp'.op \in {"authenticate", "refreshToken", "resetPassword"}
        /\ reqs' = reqs
        /\ resp'.token \notin {NoToken, MalformedToken}
        /\ now >= resp'.token.exp)
          => /\ users' = users
             /\ resp'.status = IF resp'.op = "resetPassword" THEN 400 ELSE 401
             /\ (resp'.op = "authenticate" /\ resp'.token.secret = JWT_SECRET)
                   => resp'.message = "Token expired"
             /\ (resp'.op = "refreshToken" /\ resp'.token.secret = JWT_REFRESH_SECRET)
                   => resp'.message = "Refresh token expired"

C22_ExpiredTokenRejected == [][C22_Step]_vars

(* C22 witness: the stored reset token of a user, expired, has been         *)
(* presented to resetPassword with a valid new password and answered 400.   *)
C22_Witness ==
    /\ resp.op = "resetPassword"
    /\ resp.status = 400
    /\ resp.message = "Invalid or expired reset token"
    /\ resp.token.userId \in DOMAIN users
    /\ users[resp.token.userId].resetToken = resp.token
    /\ now >= resp.token.exp

(* C23: optionalAuth never fails the request.  For every request (no token, *)
(* malformed, expired or wrong-purpose token, unknown or inactive user,     *)
(* store lookup error) it sends no response of its own and calls the next   *)
(* handler exactly once; it attaches an identity only when the token        *)
(* verifies as an unexpired access token and names an existing active user. *)
C23_Valid(token) ==
    /\ token # NoToken
    /\ token.secret = JWT_SECRET
    /\ now < token.exp
    /\ token.userId \in DOMAIN users
    /\ users[token.userId].isActive

C23_OptionalAuthNeverFails ==
    /\ \A token \in Presentable \cup {NoToken, MalformedToken}, storeUp \in BOOLEAN :
          LET o == optionalAuthOutcome(users, token, now, storeUp)
          IN /\ o.status = 0
             /\ o.next = 1
             /\ o.userId # 0 => (C23_Valid(token) /\ o.userId = token.userId)
    /\ resp.op = "optionalAuth"
          => /\ resp.status = 0
             /\ resp.next = 1
             /\ resp.userId # 0
                   => (C23_Valid(resp.token) /\ resp.userId = resp.token.userId)

(* C23 witness: a request with an unexpired access token of an active user  *)
(* went through optionalAuth while the store lookup failed: no identity,    *)
(* no response, next called once.                                           *)
C23_Witness ==
    /\ resp.op = "optionalAuth"
    /\ ~resp.storeUp
    /\ C23_Valid(resp.token)
    /\ resp.userId = 0
    /\ resp.next = 1
    /\ resp.status = 0

(* C24: a logout request that carries no access token, or one that does not *)
(* verify (expired, malformed, signed for another purpose), is answered     *)
(* with success and changes no user record: every stored refresh token is   *)
(* as it was.                                                               *)
C24_Step ==
    (/\ resp'.op = "logout"
     /\ \/ resp'.token = NoToken
        \/ verifyToken(resp'.token, JWT_SECRET, now) # "ok")
       => /\ resp'.status = 200
          /\ resp'.message = "Logout successful"
          /\ resp'.userId = 0
          /\ users' = users

C24_AnonymousLogout == [][C24_Step]_vars

(* C24 witness: a logout carrying the expired access token of a user whose  *)
(* refresh token is stored has been answered 200, the token still stored.   *)
C24_Witness ==
    /\ resp.op = "logout"
    /\ resp.status = 200
    /\ resp.token.secret = JWT_SECRET
    /\ now >= resp.token.exp
    /\ resp.token.userId \in DOMAIN users
    /\ users[resp.token.userId].isActive
    /\ users[resp.token.userId].refreshToken # NoToken

(* C25: a notification publish failure never fails the primary request.    *)
(* When Redis is not connected or publish throws, publishEvent returns      *)
(* false without throwing; createJob, applyJob and updateApplicationStatus  *)
(* then send their success response, and the row they wrote stays written.  *)
C25_Step ==
    /\ publishEvent("closed") = "false"
    /\ publishEvent("failing") = "false"
    /\ \A r \in DOMAIN awaiting :
          awaiting[r].row \in DOMAIN (IF awaiting[r].table = "jobs"
                                      THEN jobs ELSE applications)
    /\ Len(awaiting') < Len(awaiting)
          => /\ resp'.op \in JobOps
             /\ resp'.status = (IF resp'.op = "updateApplicationStatus" THEN 200 ELSE 201)
             /\ jobs' = jobs
             /\ applications' = applications
             /\ resp'.settled \in {"true", "false"}

C25_PublishFailureSwallowed == [][C25_Step]_vars

(* C25 witness: createJob has answered 201 while publish was throwing: the  *)
(* job is in the table.                                                     *)
C25_Witness ==
    /\ resp.op = "createJob"
    /\ resp.status = 201
    /\ resp.settled = "false"
    /\ redisClient = "failing"
    /\ Len(jobs) > 0

(* C26: notification publishing does not block the primary request.  Once   *)
(* createJob, applyJob or updateApplicationStatus has written its row, its  *)
(* response is eventually sent, also when the publish call never returns.   *)
C26_ResponseEventuallySent ==
    (awaiting # <<>>) ~> (resp.op \in JobOps /\ resp.status \in {200, 201, 500})

(* C27: access tokens are not revoked server-side.  Once a logout, a        *)
(* changeMyPassword or a resetPassword of a user has succeeded, every       *)
(* unexpired access token of that user, issued before it, is still accepted *)
(* by authenticate (then, and when it is presented in the next request), as *)
(* long as the user exists and is active.                                   *)
C27_Ended ==
    /\ resp.op \in {"logout", "changeMyPassword", "resetPassword"}
    /\ resp.status = 200
    /\ resp.userId # 0

C27_Step ==
    /\ C27_Ended
          => \A t \in Presentable :
                (/\ t.secret = JWT_SECRET
                 /\ t.userId = resp.userId
                 /\ now < t.exp
                 /\ t.userId \in DOMAIN users
                 /\ users[t.userId].isActive)
                   => /\ authenticate(users, t, now).status = 200
                      /\ authenticate(users, t, now).userId = t.userId
    /\ (/\ C27_Ended
        /\ resp'.op = "authenticate"
        /\ resp'.token.secret = JWT_SECRET
        /\ resp'.token.userId = resp.userId
        /\ now < resp'.token.exp
        /\ resp.userId \in DOMAIN users
        /\ users[resp.userId].isActive)
          => (resp'.status = 200 /\ resp'.userId = resp.userId)

C27_AccessTokenNotRevoked == [][C27_Step]_vars

(* C27 witness: an access token (lifetime AccessTTL) of a user whose        *)
(* session has been ended - no refresh token is stored - was presented to   *)
(* authenticate and accepted.                                               *)
C27_Witness ==
    /\ resp.op = "authenticate"
    /\ resp.status = 200
    /\ resp.token.exp = resp.token.iat + AccessTTL
    /\ users[resp.userId].refreshToken = NoToken

(* C28: the user object a successful login returns never carries the        *)
(* password-reset token or its expiry, in any state of the user, in         *)
(* particular when a forgotPassword has been issued and not yet consumed.   *)
C28_LoginHidesResetToken ==
    (resp.op = "login" /\ resp.status = 200)
       => /\ "resetToken" \in DOMAIN resp.data.user
                => resp.data.user.resetToken = NoToken
          /\ "resetTokenExpiry" \in DOMAIN resp.data.user
                => resp.data.user.resetTokenExpiry = NoExpiry

(* C29: a rejected auth operation changes nothing.  A login, refresh,       *)
(* forgotPassword or resetPassword that is answered 400 or 401 leaves every *)
(* user record as it was (password hash, refreshToken, resetToken,          *)
(* resetTokenExpiry), and so does a forgotPassword for an email no user     *)
(* has.                                                                     *)
C29_Step ==
    /\ (/\ resp'.op \in {"login", "refreshToken", "forgotPassword", "resetPassword"}
        /\ resp'.status \in {400, 401})
          => users' = users
    /\ (resp'.op = "forgotPassword" /\ resp'.userId = 0)
          => users' = users

C29_RejectedChangesNothing == [][C29_Step]_vars

(* C29 witness: a resetPassword presenting the stored reset token of a user *)
(* who holds a session was rejected with 400 (password too short, or token  *)
(* expired), and token and session are still stored.                        *)
C29_Witness ==
    /\ resp.op = "resetPassword"
    /\ resp.status = 400
    /\ resp.token.userId \in DOMAIN users
    /\ users[resp.token.userId].resetToken = resp.token
    /\ users[resp.token.userId].refreshToken # NoToken

(* C30: in every reachable state, for every user record, refreshToken is    *)
(* null or a refresh token whose subject is that user's id; resetToken is   *)
(* null or a reset token whose subject is that user's id; and resetToken    *)
(* and resetTokenExpiry are both null or both set.                          *)
C30_TokenSubjects ==
    \A u \in DOMAIN users :
       /\ \/ users[u].refreshToken = NoToken
          \/ /\ users[u].refreshToken.secret = JWT_REFRESH_SECRET
             /\ users[u].refreshToken.exp = users[u].refreshToken.iat + RefreshTTL
             /\ users[u].refreshToken.userId = u
       /\ \/ users[u].resetToken = NoToken
          \/ /\ users[u].resetToken.secret = JWT_SECRET
             /\ users[u].resetToken.exp = users[u].resetToken.iat + ResetTTL
             /\ users[u].resetToken.userId = u
       /\ (users[u].resetToken = NoToken) <=> (users[u].resetTokenExpiry = NoExpiry)

(* C30 witness: a refresh has rotated the stored refresh token of a user    *)
(* for whom a reset token is pending.                                       *)
C30_Witness ==
    /\ resp.op = "refreshToken"
    /\ resp.status = 200
    /\ users[resp.userId].refreshToken # NoToken
    /\ users[resp.userId].resetToken # NoToken
    /\ users[resp.userId].resetTokenExpiry # NoExpiry

====
